---- MODULE Spec2Model ----
(***************************************************************************)
(* Model of the rh-API-CLI trading toolkit.                                *)
(*                                                                         *)
(*   GridTrader        src/rh_grid_trader.py   the polling grid engine     *)
(*   ProfitCalculator  src/rh_prof.py          ledger reconciliation       *)
(*   CryptoOrderFetcher src/rh_orders.py       paginated order listing     *)
(*                                                                         *)
(* Units.  USD amounts are integers in mills (1/1000 USD), so that the     *)
(* truncation to 2 decimal places done by round_to_decimal_places is not   *)
(* the identity.  Python floats are modelled by these exact fixed-point    *)
(* values; binary rounding error of float arithmetic is below the          *)
(* resolution of the model.                                                *)
(*                                                                         *)
(* rh_grid_trader.py calls json.dumps (line 60) and imports no json: the    *)
(* name resolves only when the program that imports the module has bound   *)
(* it in the module's namespace.  jsonBound tells the two cases apart; as  *)
(* the file stands alone it is FALSE and place_order raises NameError.     *)
(*                                                                         *)
(* The Order Gateway and the market-data service are the environment:      *)
(* every response they give is a nondeterministic choice.                  *)
(***************************************************************************)
EXTENDS Integers, Sequences, FiniteSets, TLC

VARIABLES
    jsonBound,     \* does the name `json` resolve in rh_grid_trader's globals
    grid_size,     \* GridTrader.grid_size (mills)
    pc,            \* position of the engine in run / dynamic_grid_trading_strategy
    exc,           \* the exception that ended run, "none" while it is running
    cycles,        \* number of completed sleeps of run
    current_price, \* local current_price of the running cycle (mills), 0 = None
    ladder,        \* levels the buy loop has still to visit (whole USD)
    attempts,      \* buy prices place_order was called with in this cycle
    idx,           \* index of the list iterator of the running for-loop
    polled,        \* ids status-checked so far by the running update_order_statuses
    open_orders,   \* GridTrader.open_orders
    gw,            \* orders the gateway accepted, by id = position
    observedFilled,\* buy ids a status poll has reported filled
    sells,         \* buy ids place_order("sell", ...) was called for, in call order
    price_reply,   \* kind of the last answer to GET best_bid_ask in this cycle
    posts,         \* bodies of the selling POSTs built by place_order
    ledger,        \* the four ledger files of rh_prof.py
    ppc,           \* position of ProfitCalculator._update_filled_orders
    ids_seen,      \* its locals buy_filled_ids / sell_filled_ids
    filled_orders, \* its local filled_orders
    listing,       \* what get_all_orders returned to it
    k,             \* index of its for-loop
    runs,          \* completed or running calls of _update_filled_orders
    last_write,    \* what the latest call of _write_json_file met and reported
    tpc,           \* position of the command-line tool or function under study
    inp,           \* its arguments and the answers the environment gives it
    out            \* what it has returned or sent so far

vars == <<jsonBound, grid_size, pc, exc, cycles, current_price, ladder, attempts,
          idx, polled, open_orders, gw, observedFilled, sells, price_reply, posts,
          ledger, ppc, ids_seen, filled_orders, listing, k, runs, last_write,
          tpc, inp, out>>

gridVars == <<jsonBound, grid_size, pc, exc, cycles, current_price, ladder, attempts,
              idx, polled, open_orders, gw, observedFilled, sells, price_reply,
              posts>>

profVars == <<ledger, ppc, ids_seen, filled_orders, listing, k, runs, last_write>>

toolVars == <<tpc, inp, out>>

(***************************************************************************)
(* Bounds of the model.                                                    *)
(***************************************************************************)
MaxCycles == 1        \* poll cycles run starts after the first
MaxOrders == 3        \* orders the gateway accepts in one behaviour
MaxRuns == 2          \* calls of _update_filled_orders
MaxBook == 2          \* orders in the gateway's listing
PageSize == 1         \* orders the gateway puts on one page of the listing
MaxLines == 3         \* lines of a ledger file given to _read_json_file
MaxTrades == 2        \* records of one ledger given to the gains functions
MaxTicks == 60        \* asks given to the daily buy, 50 USD apart
MaxSellOrders == 2    \* --total-orders of rh_sell.py

(***************************************************************************)
(* Program constants.                                                      *)
(***************************************************************************)
Window == 1500        \* current_price - 1500
PricePlaces == 2      \* round_to_decimal_places(price, 2)
usd_position_size == 5005   \* --usd-position-size, in mills (5.005 USD)

None == 0             \* Python None where a price is expected
NoKey == 0 - 1        \* a key that is absent from a response's limit_order_config
NoRef == None         \* a request that is not tied to a tracked buy

(***************************************************************************)
(* Arithmetic helpers.                                                     *)
(***************************************************************************)
\* Division truncating toward zero (int(), ROUND_DOWN), for b > 0.
TruncDiv(a, b) == IF a >= 0 THEN a \div b ELSE 0 - ((0 - a) \div b)

Pow10(n) == IF n = 0 THEN 1 ELSE IF n = 1 THEN 10 ELSE IF n = 2 THEN 100 ELSE 1000

\* Mills per USD.
Mill == Pow10(3)

\* int(x) of a float x given in mills: whole USD, truncated toward zero.
PyInt(x) == TruncDiv(x, Mill)


\* GridTrader.round_to_decimal_places: Decimal.quantize(10^-places, ROUND_DOWN).
round_to_decimal_places(value, places) ==
    LET unit == Pow10(3 - places) IN TruncDiv(value, unit) * unit

Range(f) == {f[i] : i \in DOMAIN f}

\* range(start, stop, step) for step > 0, as a sequence.
RECURSIVE PyRange(_, _, _)
PyRange(start, stop, step) ==
    IF start >= stop THEN <<>>
    ELSE <<start>> \o PyRange(start + step, stop, step)

\* floor(a * 10^digits / b) for a >= 0, b > 0, by long division, so that no
\* intermediate value leaves the integers TLC can hold.
RECURSIVE DivDigits(_, _, _, _)
DivDigits(q, r, b, digits) ==
    IF digits = 0 THEN q
    ELSE DivDigits(q * 10 + (r * 10) \div b, (r * 10) % b, b, digits - 1)

\* usd / price of two floats given in mills, in units of 10^-9 BTC.
Quantity(usd, price) == DivDigits(usd \div price, usd % price, price, 9)

\* GridTrader.round_asset_quantity: quantize to '1.00000000', ROUND_DOWN, of a
\* quantity in units of 10^-9 BTC.
round_asset_quantity(quantity) == TruncDiv(quantity, 10) * 10

\* round(usd / price, 8) of rh_client.py line 140, in units of 10^-9 BTC:
\* the quotient to ten places, then to the nearest multiple of 10^-8.
PyRound8(usd, price) ==
    ((DivDigits(usd \div price, usd % price, price, 10) + 50) \div 100) * 10

(***************************************************************************)
(* The environment's answers.                                              *)
(***************************************************************************)
\* Reference prices the market-data service can quote (mills).
Prices == {50000554, 49000000}

\* --grid-size values (mills): 1000 USD, 750.5 USD and 0.5 USD.
GridSizes == {1000000, 750500, 500}

\* Answers to GET best_bid_ask:
\*   fail            the request raises requests.RequestException
\*   no_results      JSON without 'results';  empty_results  'results': []
\*   ask_missing     results[0] has no 'ask_inclusive_of_buy_spread'
\*   ask_unparsable  the ask is a string float() rejects
\*   ask_null        the ask is JSON null
\*   ok              the ask is the decimal string of a price
PriceOutcomes == {"fail", "no_results", "empty_results", "ask_missing",
                  "ask_unparsable", "ask_null", "ok"}

\* Answers to POST orders:
\*   fail          the request raises requests.RequestException
\*   empty         the body is the JSON object {}
\*   open          an order in state open
\*   filled        an order already in state filled, with its asset_quantity
\*   filled_noqty  the same, its limit_order_config carrying no asset_quantity
PlaceOutcomes == {"fail", "empty", "open", "filled", "filled_noqty"}

\* Answers to GET orders/{id}: the order, or a RequestException.
StatusOutcomes == {"fail", "ok"}

\* The JSON object {} stored as a tracked order.
EmptyDict == [id |-> 0, side |-> "none", state |-> "none",
              limit_price |-> 0, asset_quantity |-> NoKey]

\* list.remove(x): drops the first element equal to x.
RECURSIVE ListRemove(_, _)
ListRemove(s, x) ==
    IF s = <<>> THEN <<>>
    ELSE IF Head(s) = x THEN Tail(s)
    ELSE <<Head(s)>> \o ListRemove(Tail(s), x)

(***************************************************************************)
(* GridTrader                                                              *)
(***************************************************************************)
\* The mutant does not catch the ValueError of float().
get_current_price_uncaught(kind, p) ==
    CASE kind = "ok"             -> [raised |-> "none", value |-> p]
      [] kind = "ask_null"       -> [raised |-> "TypeError", value |-> None]
      [] kind = "ask_unparsable" -> [raised |-> "ValueError", value |-> None]
      [] OTHER                   -> [raised |-> "none", value |-> None]

\* get_best_bid_ask + get_current_price: [raised, value].  float() raises a
\* TypeError for None, which the except clause of line 105 does not name.
get_current_price(kind, p) ==
    CASE kind = "ok"       -> [raised |-> "none", value |-> p]
      [] kind = "ask_null" -> [raised |-> "TypeError", value |-> None]
      [] OTHER             -> [raised |-> "none", value |-> None]

\* The mutant mirrors the buy price only once.
SellPriceOnce(buy_price, price) == buy_price + (price - buy_price)

\* sell_price = buy_price + 2 * (current_price - buy_price)
SellPrice(buy_price, price) == buy_price + 2 * (price - buy_price)

\* The mutant starts the ladder at the first multiple of the step.
LadderMultiples(price, gsize) ==
    LET step == PyInt(gsize)
        lo   == PyInt(price - Window * Mill)
        first == ((lo + step - 1) \div step) * step
    IN PyRange(first, PyInt(price), step)

\* range(int(lower_bound), int(current_price), int(self.grid_size))
Ladder(price, gsize) ==
    PyRange(PyInt(price - Window * Mill), PyInt(price), PyInt(gsize))

\* The order the gateway creates for a request body, and the JSON it answers.
GatewayOrder(side, limit_price, qty, ref, outcome) ==
    [side |-> side, limit_price |-> limit_price, asset_quantity |-> qty,
     state |-> IF outcome = "open" THEN "open" ELSE "filled", ref |-> ref]

\* place_order(side, price, quantity): [raised, ret, open_orders, gw, posts].
\* price in mills; quantity in 10^-9 BTC; ref names the tracked buy a sell is for.
place_order(side, price, quantity, ref, outcome) ==
    LET limit_price == round_to_decimal_places(price, PricePlaces)
        quote == round_to_decimal_places(usd_position_size, PricePlaces)
        body == [side |-> side, limit_price |-> limit_price,
                 quote_amount |-> IF side = "buy" THEN quote ELSE NoKey,
                 asset_quantity |-> IF side = "sell" THEN quantity ELSE NoKey,
                 ref |-> ref, price |-> current_price]
        qty == IF side = "buy"
               THEN (IF limit_price > 0 THEN Quantity(quote, limit_price) ELSE 0)
               ELSE quantity
        id == Len(gw) + 1
        resp == [id |-> id, side |-> side,
                 state |-> IF outcome = "open" THEN "open" ELSE "filled",
                 limit_price |-> limit_price,
                 asset_quantity |-> IF outcome = "filled_noqty" THEN NoKey ELSE qty]
    IN  IF ~jsonBound
        THEN [raised |-> "NameError", ret |-> EmptyDict, open_orders |-> open_orders,
              gw |-> gw, posts |-> posts]
        ELSE IF outcome = "fail"
        THEN [raised |-> "none", ret |-> EmptyDict, open_orders |-> open_orders,
              gw |-> gw, posts |-> posts \union {body}]
        ELSE IF outcome = "empty"
        THEN [raised |-> "none", ret |-> EmptyDict,
              open_orders |-> Append(open_orders, EmptyDict),
              gw |-> gw, posts |-> posts \union {body}]
        ELSE [raised |-> "none", ret |-> resp,
              open_orders |-> Append(open_orders, resp),
              gw |-> Append(gw, GatewayOrder(side, limit_price, qty, ref, outcome)),
              posts |-> posts \union {body}]

\* Outcomes the gateway can give a POST: it accepts at most MaxOrders orders.
CanPlace(outcome) ==
    outcome \in {"open", "filled", "filled_noqty"} => Len(gw) < MaxOrders

Crash(e) ==
    /\ pc' = "crashed"
    /\ exc' = e

\* Where the engine goes once a for-loop over open_orders has no element left.
AfterBuys(oo) == IF Len(oo) >= 1 THEN "status" ELSE "sleep"
AfterStatus(oo) == IF Len(oo) >= 1 THEN "sells" ELSE "sleep"

\* run, line 160, and dynamic_grid_trading_strategy, lines 136-143: fetch the
\* reference price and build the range the buy loop iterates.
FetchPrice ==
    /\ pc = "run"
    /\ \E kind \in PriceOutcomes, p \in Prices :
         LET r == get_current_price(kind, p) IN
         /\ price_reply' = kind
         /\ IF r.raised # "none"
            THEN /\ Crash(r.raised)
                 /\ UNCHANGED <<current_price, ladder, attempts, idx>>
            ELSE IF r.value = None
            THEN /\ pc' = "sleep"
                 /\ UNCHANGED <<exc, current_price, ladder, attempts, idx>>
            ELSE IF PyInt(grid_size) = 0
            THEN /\ Crash("ValueError")
                 /\ current_price' = r.value
                 /\ UNCHANGED <<ladder, attempts, idx>>
            ELSE /\ current_price' = r.value
                 /\ ladder' = Ladder(r.value, grid_size)
                 /\ attempts' = <<>>
                 /\ idx' = 1
                 /\ pc' = IF Ladder(r.value, grid_size) = <<>>
                          THEN AfterBuys(open_orders) ELSE "buys"
                 /\ UNCHANGED exc
    /\ UNCHANGED <<jsonBound, grid_size, cycles, open_orders, gw, observedFilled,
                   sells, posts>>
    /\ UNCHANGED <<polled, profVars, toolVars>>

\* One iteration of the buy loop, lines 143-147.
PlaceBuy ==
    /\ pc = "buys"
    /\ ladder # <<>>
    /\ \E outcome \in PlaceOutcomes :
         /\ CanPlace(outcome)
         /\ LET price == Head(ladder)
                r == place_order("buy", price * Mill, NoKey, NoRef, outcome)
            IN /\ attempts' = Append(attempts, price)
               /\ ladder' = Tail(ladder)
               /\ open_orders' = r.open_orders
               /\ gw' = r.gw
               /\ posts' = r.posts
               /\ IF r.raised # "none"
                  THEN Crash(r.raised)
                  ELSE IF r.ret # EmptyDict /\ price = 0
                  THEN Crash("ZeroDivisionError")
                  ELSE /\ pc' = IF Tail(ladder) = <<>>
                                THEN AfterBuys(r.open_orders) ELSE "buys"
                       /\ UNCHANGED exc
    /\ idx' = 1
    /\ UNCHANGED <<jsonBound, grid_size, cycles, current_price, observedFilled,
                   sells, price_reply>>
    /\ UNCHANGED <<polled, profVars, toolVars>>

\* One iteration of update_order_statuses, lines 114-121.  The list iterator
\* keeps its index while remove() shifts the elements behind it.
PollStatus ==
    /\ pc = "status"
    /\ idx <= Len(open_orders)
    /\ \E outcome \in StatusOutcomes :
         LET order == open_orders[idx] IN
         IF order = EmptyDict \/ outcome = "fail"
         THEN /\ Crash("KeyError")
              /\ UNCHANGED <<open_orders, observedFilled, idx, polled>>
         ELSE LET filled == gw[order.id].state = "filled"
                  oo == IF filled THEN ListRemove(open_orders, order)
                        ELSE open_orders
              IN /\ open_orders' = oo
                 /\ observedFilled' = IF filled /\ order.side = "buy"
                                      THEN observedFilled \union {order.id}
                                      ELSE observedFilled
                 /\ polled' = IF idx + 1 <= Len(oo) THEN polled \union {order.id} ELSE {}
                 /\ IF idx + 1 <= Len(oo)
                    THEN /\ idx' = idx + 1
                         /\ pc' = "status"
                    ELSE /\ idx' = 1
                         /\ pc' = AfterStatus(oo)
                 /\ UNCHANGED exc
    /\ UNCHANGED <<jsonBound, grid_size, cycles, current_price, ladder, attempts,
                   gw, sells, price_reply, posts>>
    /\ UNCHANGED <<profVars, toolVars>>

\* One iteration of the sell loop, lines 151-155.  place_order appends to the
\* list the loop is iterating.
EmitSell ==
    /\ pc = "sells"
    /\ idx <= Len(open_orders)
    /\ \E outcome \in {"fail", "empty", "open"} :
         /\ CanPlace(outcome)
         /\ LET order == open_orders[idx] IN
            IF order = EmptyDict
            THEN /\ Crash("KeyError")
                 /\ UNCHANGED <<open_orders, gw, posts, sells, idx>>
            ELSE IF ~(order.side = "buy" /\ order.state = "filled")
            THEN /\ idx' = IF idx + 1 <= Len(open_orders) THEN idx + 1 ELSE 1
                 /\ pc' = IF idx + 1 <= Len(open_orders) THEN "sells" ELSE "sleep"
                 /\ UNCHANGED <<exc, open_orders, gw, posts, sells>>
            ELSE IF order.asset_quantity = NoKey
            THEN /\ Crash("KeyError")
                 /\ UNCHANGED <<open_orders, gw, posts, sells, idx>>
            ELSE LET r == place_order("sell",
                                      SellPrice(order.limit_price, current_price),
                                      order.asset_quantity, order.id, outcome)
                 IN /\ open_orders' = r.open_orders
                    /\ gw' = r.gw
                    /\ posts' = r.posts
                    /\ sells' = Append(sells, order.id)
                    /\ IF r.raised # "none"
                       THEN /\ Crash(r.raised)
                            /\ UNCHANGED idx
                       ELSE /\ idx' = IF idx + 1 <= Len(r.open_orders)
                                      THEN idx + 1 ELSE 1
                            /\ pc' = IF idx + 1 <= Len(r.open_orders)
                                     THEN "sells" ELSE "sleep"
                            /\ UNCHANGED exc
    /\ UNCHANGED <<jsonBound, grid_size, cycles, current_price, ladder, attempts,
                   observedFilled, price_reply>>
    /\ UNCHANGED <<polled, profVars, toolVars>>

\* run, line 161: time.sleep(poll_interval), then the next iteration.
Sleep ==
    /\ pc = "sleep"
    /\ cycles < MaxCycles
    /\ pc' = "run"
    /\ cycles' = cycles + 1
    /\ price_reply' = "none"
    /\ UNCHANGED <<jsonBound, grid_size, exc, current_price, ladder, attempts, idx,
                   open_orders, gw, observedFilled, sells, posts>>
    /\ UNCHANGED <<polled, profVars, toolVars>>

\* The market fills a resting order.
GatewayFill ==
    /\ pc # "crashed"
    /\ \E i \in 1..Len(gw) :
         /\ gw[i].state = "open"
         /\ gw' = [gw EXCEPT ![i].state = "filled"]
    /\ UNCHANGED <<jsonBound, grid_size, pc, exc, cycles, current_price, ladder,
                   attempts, idx, open_orders, observedFilled, sells, price_reply,
                   posts>>
    /\ UNCHANGED <<polled, profVars, toolVars>>

\* The account holder cancels a resting order (rh_cancel.py).
GatewayCancel ==
    /\ pc # "crashed"
    /\ \E i \in 1..Len(gw) :
         /\ gw[i].state = "open"
         /\ gw' = [gw EXCEPT ![i].state = "canceled"]
    /\ UNCHANGED <<jsonBound, grid_size, pc, exc, cycles, current_price, ladder,
                   attempts, idx, open_orders, observedFilled, sells, price_reply,
                   posts>>
    /\ UNCHANGED <<polled, profVars, toolVars>>

(***************************************************************************)
(* ProfitCalculator and CryptoOrderFetcher                                 *)
(***************************************************************************)
\* A ledger file: whether it exists, and its lines.  A line is a record
\* json.dumps wrote, or (valid = FALSE) text json.loads rejects.
Missing == [exists |-> FALSE, lines |-> <<>>]
File(lines) == [exists |-> TRUE, lines |-> lines]

\* Orders of the gateway's listing.  limit_price = 0 and quote_amount = 0
\* stand for an order whose limit_order_config lacks the key (a market order
\* has no limit_order_config; a sell carries asset_quantity, not quote_amount).
Orders == {
    [id |-> 1, side |-> "buy",  state |-> "filled", limit_price |-> 48500000,
     quote_amount |-> 5000, created_at |-> 11],
    [id |-> 2, side |-> "sell", state |-> "filled", limit_price |-> 51500000,
     quote_amount |-> 0, created_at |-> 12],
    [id |-> 3, side |-> "buy",  state |-> "filled", limit_price |-> 0,
     quote_amount |-> 0, created_at |-> 13],
    [id |-> 4, side |-> "buy",  state |-> "open",   limit_price |-> 49500000,
     quote_amount |-> 5000, created_at |-> 14]}

\* The listings the gateway can hold: any sequence of at most MaxBook orders.
Books == UNION {[1..n -> Orders] : n \in 0..MaxBook}

\* Requests one call of get_all_orders can need; page 0 does not exist.
MaxPages == (MaxBook + PageSize - 1) \div PageSize

\* Page n of a listing, n >= 1.
Page(book, n) ==
    SubSeq(book, (n - 1) * PageSize + 1,
           IF n * PageSize <= Len(book) THEN n * PageSize ELSE Len(book))

\* Whether the answer for page n names a next page.
HasNext(book, n) == n * PageSize < Len(book)

\* The loop putting each page in front of the orders fetched so far.
RECURSIVE FetchFromPrepending(_, _, _, _)
FetchFromPrepending(book, n, failAt, all_orders) ==
    IF n = failAt THEN all_orders
    ELSE IF Page(book, n) = <<>> THEN all_orders
    ELSE IF HasNext(book, n)
         THEN FetchFromPrepending(book, n + 1, failAt, Page(book, n) \o all_orders)
         ELSE Page(book, n) \o all_orders

\* CryptoOrderFetcher.get_all_orders from page n on: the request for page
\* failAt is answered 401, with an HTTP error, not at all, or with a body that
\* is not JSON (each ends the loop); an answer without results ends it too.
RECURSIVE FetchFrom(_, _, _, _)
FetchFrom(book, n, failAt, all_orders) ==
    IF n = failAt THEN all_orders
    ELSE IF Page(book, n) = <<>> THEN all_orders
    ELSE IF HasNext(book, n)
         THEN FetchFrom(book, n + 1, failAt, all_orders \o Page(book, n))
         ELSE all_orders \o Page(book, n)

get_all_orders(book, failAt) == FetchFrom(book, 1, failAt, <<>>)

\* ProfitCalculator._read_json_file: [] for a missing file, and for a file
\* with a line that is not JSON.
_read_json_file(file) ==
    IF ~file.exists THEN <<>>
    ELSE IF \E i \in 1..Len(file.lines) : ~file.lines[i].valid THEN <<>>
    ELSE file.lines

\* The file opened with mode 'w' instead of 'a'.
_write_json_file_truncating(file, data, outcome) ==
    IF outcome = "ioerror" THEN file ELSE File(<<data>>)

\* ProfitCalculator._write_json_file: appends one line; an IOError is logged
\* and not raised, the file staying as it was.
_write_json_file(file, data, outcome) ==
    IF outcome = "ioerror" THEN file ELSE File(Append(file.lines, data))

\* What a call of _write_json_file lets its caller see: the function has no
\* return statement, and lines 43-44 catch the IOError and only log it.
WriteReport(outcome) == [outcome |-> outcome, raised |-> FALSE, returned |-> None]

NoWrite == [outcome |-> "none", raised |-> FALSE, returned |-> None]

WriteOutcomes == {"ok", "ioerror"}

\* The record lines 72-78 and 80-86 build for an order.
FilledRecord(order) ==
    [valid |-> TRUE, timestamp |-> order.created_at, price |-> order.limit_price,
     quote_amount |-> order.quote_amount,
     quantity |-> Quantity(order.quote_amount, order.limit_price),
     order_id |-> order.id]

IsFilled(order) == order.state = "filled"

\* _update_filled_orders, lines 48-59: read the ledgers, list the orders, keep
\* the filled ones.
UpdateStart ==
    /\ ppc = "idle"
    /\ runs < MaxRuns
    /\ \E book \in Books, failAt \in 0..MaxPages :
         LET all_orders == get_all_orders(book, failAt)
             filled == SelectSeq(all_orders, IsFilled)
         IN /\ listing' = all_orders
            /\ filled_orders' = filled
            /\ ppc' = IF filled = <<>> THEN "idle" ELSE "loop"
    /\ ids_seen' =
         [buy  |-> {r.order_id : r \in Range(_read_json_file(ledger.buy_filled))},
          sell |-> {r.order_id : r \in Range(_read_json_file(ledger.sell_filled))}]
    /\ k' = 1
    /\ runs' = runs + 1
    /\ last_write' = NoWrite
    /\ UNCHANGED ledger
    /\ UNCHANGED <<gridVars, toolVars>>

\* One iteration of the loop of lines 62-86.
UpdateStep ==
    /\ ppc = "loop"
    /\ \E outcome \in WriteOutcomes :
         LET order == filled_orders[k]
             price == order.limit_price
         IN IF price = 0
            THEN UNCHANGED <<ledger, last_write>>
            ELSE IF order.side = "buy" /\ order.id \notin ids_seen.buy
            THEN /\ ledger' = [ledger EXCEPT !.buy_filled =
                      _write_json_file(ledger.buy_filled, FilledRecord(order), outcome)]
                 /\ last_write' = WriteReport(outcome)
            ELSE IF order.side = "sell" /\ order.id \notin ids_seen.sell
            THEN /\ ledger' = [ledger EXCEPT !.sell_filled =
                      _write_json_file(ledger.sell_filled, FilledRecord(order), outcome)]
                 /\ last_write' = WriteReport(outcome)
            ELSE UNCHANGED <<ledger, last_write>>
    /\ k' = IF k + 1 <= Len(filled_orders) THEN k + 1 ELSE 1
    /\ ppc' = IF k + 1 <= Len(filled_orders) THEN "loop" ELSE "idle"
    /\ UNCHANGED <<ids_seen, filled_orders, listing, runs>>
    /\ UNCHANGED <<gridVars, toolVars>>

NoLedger == [buy_placed |-> Missing, sell_placed |-> Missing,
             buy_filled |-> Missing, sell_filled |-> Missing]

ProfIdle ==
    /\ ppc = "idle"
    /\ ids_seen = [buy |-> {}, sell |-> {}]
    /\ filled_orders = <<>>
    /\ listing = <<>>
    /\ k = 1
    /\ runs = 0
    /\ last_write = NoWrite

\* No tool has been started.
ToolIdle ==
    /\ tpc = "idle"
    /\ inp = <<>>
    /\ out = <<>>

GridIdle ==
    /\ pc = "run"
    /\ exc = "none"
    /\ cycles = 0
    /\ current_price = None
    /\ ladder = <<>>
    /\ attempts = <<>>
    /\ idx = 1
    /\ polled = {}
    /\ open_orders = <<>>
    /\ gw = <<>>
    /\ observedFilled = {}
    /\ sells = <<>>
    /\ price_reply = "none"
    /\ posts = {}

Init ==
    /\ jsonBound \in BOOLEAN
    /\ grid_size \in GridSizes
    /\ GridIdle
    /\ ledger = NoLedger
    /\ ProfIdle
    /\ ToolIdle

Next ==
    \/ FetchPrice
    \/ PlaceBuy
    \/ PollStatus
    \/ EmitSell
    \/ Sleep
    \/ GatewayFill
    \/ GatewayCancel

Spec == Init /\ [][Next]_vars

\* A buy that filled long ago and has left the gateway's listing.
EarlierOrder ==
    [id |-> 9, side |-> "buy", state |-> "filled", limit_price |-> 47500000,
     quote_amount |-> 5000, created_at |-> 5]

\* The ledger files rh_prof.py can find when it starts: none, or the ones an
\* earlier run left.
InitProf ==
    /\ jsonBound = FALSE
    /\ grid_size = 1000000
    /\ GridIdle
    /\ \E bf \in {Missing, File(<<>>), File(<<FilledRecord(EarlierOrder)>>)},
          sf \in {Missing, File(<<>>)} :
         ledger = [NoLedger EXCEPT !.buy_filled = bf, !.sell_filled = sf]
    /\ ProfIdle
    /\ ToolIdle

NextProf ==
    \/ UpdateStart
    \/ UpdateStep

SpecProf == InitProf /\ [][NextProf]_vars

(***************************************************************************)
(* The tools and functions that run on their own.  While one of them runs, *)
(* the grid engine and the reconciliation step are not running.            *)
(***************************************************************************)
OthersIdle ==
    /\ jsonBound = FALSE
    /\ grid_size = 1000000
    /\ GridIdle
    /\ ledger = NoLedger
    /\ ProfIdle

\* A line json.loads rejects: an empty line, or a record cut short.
BadLine == [valid |-> FALSE]

\* Lines a ledger file can hold.
ReadLines ==
    {FilledRecord(o) : o \in {x \in Orders \union {EarlierOrder} :
                                IsFilled(x) /\ x.limit_price # 0}}
    \union {BadLine}

\* The files _read_json_file can be given.
ReadFiles == {Missing} \union {File(l) : l \in UNION {[1..n -> ReadLines] : n \in 0..MaxLines}}

InitRead ==
    /\ OthersIdle
    /\ tpc = "read"
    /\ \E f \in ReadFiles : inp = [file |-> f]
    /\ out = <<>>

\* A call of _read_json_file: FileNotFoundError and JSONDecodeError are caught
\* (lines 34-36), so nothing is raised for the files of ReadFiles.
ReadFile ==
    /\ tpc = "read"
    /\ out' = [result |-> _read_json_file(inp.file), raised |-> FALSE]
    /\ tpc' = "read_done"
    /\ UNCHANGED inp
    /\ UNCHANGED <<gridVars, profVars>>

NextRead == ReadFile

SpecRead == InitRead /\ [][NextRead]_vars

(***************************************************************************)
(* CryptoAPITrading.execute_btc_daily_buy                                  *)
(***************************************************************************)
\* Asks the market-data service can quote (mills), every 50 USD from 59000.
DailyPrices == {(59000 + 50 * i) * Mill : i \in 0..MaxTicks}

\* Line 132: below this ask (mills) the daily buy spends 5 USD, else 1 USD.
BuyThreshold == 60500 * Mill

InitDaily ==
    /\ OthersIdle
    /\ tpc = "daily"
    /\ \E p \in DailyPrices \union {None} : inp = [ask |-> p]
    /\ out = <<>>

\* execute_btc_daily_buy: get_current_btc_price raises KeyError for an answer
\* without results (ask = None); else one market buy is sent.
DailyBuy ==
    /\ tpc = "daily"
    /\ out' = IF inp.ask = None
              THEN [raised |-> "KeyError", buy_amount |-> None, asset_quantity |-> None]
              ELSE LET buy_amount == IF inp.ask < BuyThreshold THEN 5 * Mill ELSE 1 * Mill
                   IN [raised |-> "none", buy_amount |-> buy_amount,
                       asset_quantity |-> PyRound8(buy_amount, inp.ask)]
    /\ tpc' = "daily_done"
    /\ UNCHANGED inp
    /\ UNCHANGED <<gridVars, profVars>>

NextDaily == DailyBuy

SpecDaily == InitDaily /\ [][NextDaily]_vars

\* A call of get_all_orders (rh_orders.py, rh_cancel.py) or of get_open_orders
\* (rh_cancel.py, the continuation read from 'cursor'): the gateway holds the
\* listing inp.book and fails the request for page inp.failAt.
InitListing ==
    /\ OthersIdle
    /\ tpc = "listing"
    /\ \E book \in Books, failAt \in 0..MaxPages : inp = [book |-> book, failAt |-> failAt]
    /\ out = <<>>

ListOrders ==
    /\ tpc = "listing"
    /\ out' = get_all_orders(inp.book, inp.failAt)
    /\ tpc' = "listing_done"
    /\ UNCHANGED inp
    /\ UNCHANGED <<gridVars, profVars>>

NextListing == ListOrders

SpecListing == InitListing /\ [][NextListing]_vars

(***************************************************************************)
(* OrderCanceller.cancel_all_open_orders                                   *)
(***************************************************************************)
\* Entries of the open-orders listing; id = None: the entry has no 'id'.
Listed == {[id |-> 1, state |-> "open"], [id |-> 2, state |-> "open"],
           [id |-> None, state |-> "open"]}

OpenBooks == UNION {[1..n -> Listed] : n \in 0..MaxBook}

\* Answers to a cancel request: text/plain; another content type; an HTTP
\* error status; no answer (timeout, connection error).
CancelOutcomes == {"success", "unexpected", "http_error", "request_error"}

\* OrderCanceller.cancel_order: the keys of the dict it returns.
cancel_order(order_id, outcome) ==
    IF outcome = "success" THEN {"success"}
    ELSE IF outcome = "unexpected" THEN {"error"}
    ELSE {}

\* The loop given up at the first cancel that did not succeed.
AfterCancelStopping(cancel_response, i, n) ==
    IF i + 1 <= n /\ "success" \in cancel_response THEN "cancel_loop" ELSE "cancel_done"

\* Lines 176-182: each branch only logs, and the loop goes on to the next order.
AfterCancel(cancel_response, i, n) ==
    IF i + 1 <= n THEN "cancel_loop" ELSE "cancel_done"

InitCancel ==
    /\ OthersIdle
    /\ tpc = "cancel"
    /\ \E book \in OpenBooks, failAt \in 0..MaxPages : inp = [book |-> book, failAt |-> failAt]
    /\ out = <<>>

\* Line 168: open_orders = self.get_open_orders().
CancelStart ==
    /\ tpc = "cancel"
    /\ LET listing_ == get_all_orders(inp.book, inp.failAt)
       IN /\ out' = [open_orders |-> listing_, i |-> 1, requests |-> <<>>, responses |-> <<>>]
          /\ tpc' = IF listing_ = <<>> THEN "cancel_done" ELSE "cancel_loop"
    /\ UNCHANGED inp
    /\ UNCHANGED <<gridVars, profVars>>

\* One iteration of the loop of lines 169-182.
CancelStep ==
    /\ tpc = "cancel_loop"
    /\ LET order == out.open_orders[out.i]
           n == Len(out.open_orders)
       IN IF order.id = None
          THEN /\ out' = [out EXCEPT !.i = @ + 1]
               /\ tpc' = IF out.i + 1 <= n THEN "cancel_loop" ELSE "cancel_done"
          ELSE \E outcome \in CancelOutcomes :
                 LET cancel_response == cancel_order(order.id, outcome)
                 IN /\ out' = [out EXCEPT !.i = @ + 1,
                                          !.requests = Append(@, order.id),
                                          !.responses = Append(@, cancel_response)]
                    /\ tpc' = AfterCancel(cancel_response, out.i, n)
    /\ UNCHANGED inp
    /\ UNCHANGED <<gridVars, profVars>>

NextCancel ==
    \/ CancelStart
    \/ CancelStep

SpecCancel == InitCancel /\ [][NextCancel]_vars

(***************************************************************************)
(* SellOrderPlacer.place_sell_orders, on a GridTrader of its own           *)
(***************************************************************************)
\* --initial-price and --increment (mills), --sell-amount (mills).
InitialPrices == {60000000, 61000555}
Increments == {500000, 250500}
SellAmounts == {5000, 10000}

InitSell ==
    /\ jsonBound \in BOOLEAN
    /\ GridIdle
    /\ ledger = NoLedger
    /\ ProfIdle
    /\ tpc = "sell"
    /\ \E initial_price \in InitialPrices, increment \in Increments,
          total_orders \in 0..MaxSellOrders, sell_amount \in SellAmounts :
         /\ grid_size = increment
         /\ inp = [initial_price |-> initial_price, increment |-> increment,
                   total_orders |-> total_orders, sell_amount |-> sell_amount]
    /\ out = <<>>

\* Line 22, and range(self.total_orders) of line 23.
SellStart ==
    /\ tpc = "sell"
    /\ out' = [i |-> 0, current_price |-> inp.initial_price, attempts |-> <<>>,
               exc |-> "none"]
    /\ tpc' = IF inp.total_orders > 0 THEN "sell_loop" ELSE "sell_done"
    /\ UNCHANGED inp
    /\ UNCHANGED <<gridVars, profVars>>

\* One iteration of the loop of lines 23-28.  GridTrader has no method
\* log_filled_order: line 27 raises AttributeError.
SellStep ==
    /\ tpc = "sell_loop"
    /\ \E outcome \in PlaceOutcomes :
         /\ CanPlace(outcome)
         /\ LET quantity == round_asset_quantity(Quantity(inp.sell_amount, out.current_price))
                r == place_order("sell", out.current_price, quantity, NoRef, outcome)
                attempted == Append(out.attempts,
                                    [price |-> out.current_price, quantity |-> quantity])
            IN /\ open_orders' = r.open_orders
               /\ gw' = r.gw
               /\ posts' = r.posts
               /\ IF r.raised # "none"
                  THEN /\ out' = [out EXCEPT !.attempts = attempted, !.exc = r.raised]
                       /\ tpc' = "sell_crashed"
                  ELSE IF r.ret # EmptyDict
                  THEN /\ out' = [out EXCEPT !.attempts = attempted, !.exc = "AttributeError"]
                       /\ tpc' = "sell_crashed"
                  ELSE /\ out' = [out EXCEPT !.attempts = attempted, !.i = @ + 1,
                                             !.current_price = @ + inp.increment]
                       /\ tpc' = IF out.i + 1 < inp.total_orders
                                 THEN "sell_loop" ELSE "sell_done"
    /\ UNCHANGED inp
    /\ UNCHANGED <<jsonBound, grid_size, pc, exc, cycles, current_price, ladder, attempts,
                   idx, polled, observedFilled, sells, price_reply>>
    /\ UNCHANGED profVars

NextSell ==
    \/ SellStart
    \/ SellStep

SpecSell == InitSell /\ [][NextSell]_vars

(***************************************************************************)
(* ProfitCalculator's gains.  Here a price is in whole USD and a quantity  *)
(* in 1/1000 BTC, so that price * quantity is in mills.                    *)
(***************************************************************************)
GainBuys ==
    {[price |-> 45000, quantity |-> 10, order_id |-> 1],
     [price |-> 46000, quantity |-> 10, order_id |-> 2]}

\* _update_filled_orders writes a sell with quantity 0 (its order has no
\* quote_amount).
GainSells ==
    {[price |-> 50000, quantity |-> 15, order_id |-> 3],
     [price |-> 51500, quantity |-> 0,  order_id |-> 4]}

Trades(records) == UNION {[1..n -> records] : n \in 0..MaxTrades}

\* Live prices at the time of the display; None: the price is unavailable.
GainPrices == {None, 47000, 50000}

\* sum(r['price'] * r['quantity'] for r in records)
RECURSIVE SumCost(_)
SumCost(records) ==
    IF records = <<>> THEN 0
    ELSE Head(records).price * Head(records).quantity + SumCost(Tail(records))

\* The records of filled whose order_id is among those of placed.
InPlaced(filled, placed) ==
    SelectSeq(filled, LAMBDA r : r.order_id \in {q.order_id : q \in Range(placed)})

\* ProfitCalculator._calculate_unrealized_gains.
_calculate_unrealized_gains(buys_placed, buys_filled, sells_placed, sells_filled) ==
    LET buy_cost == SumCost(buys_placed) - SumCost(InPlaced(buys_filled, buys_placed))
        total_sell_cost == SumCost(sells_placed) - SumCost(InPlaced(sells_filled, sells_placed))
        total_buy_cost == IF buy_cost > 0 THEN 0 - buy_cost ELSE buy_cost
    IN total_buy_cost + total_sell_cost

\* The buy cost added as it is, not made negative.
_calculate_realized_gains_unsigned(buys, sell_records) ==
    SumCost(buys) + SumCost(sell_records)

\* ProfitCalculator._calculate_realized_gains.  Decimal(str(x)) is the decimal
\* the ledger line holds for x, and the products and sums of these decimals
\* are exact within the 28 digits of line 122.
_calculate_realized_gains(buys, sell_records) ==
    LET buy_cost == SumCost(buys)
        total_sell_cost == SumCost(sell_records)
        total_buy_cost == IF buy_cost > 0 THEN 0 - buy_cost ELSE buy_cost
    IN total_buy_cost + total_sell_cost

NotShown == [shown |-> FALSE, value |-> None]

InitGains ==
    /\ OthersIdle
    /\ tpc = "gains"
    /\ \E bp \in Trades(GainBuys), bf \in Trades(GainBuys),
          sp \in Trades(GainSells), sf \in Trades(GainSells), p \in GainPrices :
         inp = [buys_placed |-> bp, buys_filled |-> bf,
                sells_placed |-> sp, sells_filled |-> sf, current_price |-> p]
    /\ out = <<>>

\* display_unrealized_gains on the four ledgers read.
DisplayUnrealized ==
    /\ tpc = "gains"
    /\ out' = IF /\ inp.buys_placed = <<>> /\ inp.buys_filled = <<>>
                 /\ inp.sells_placed = <<>> /\ inp.sells_filled = <<>>
              THEN NotShown
              ELSE IF inp.current_price = None THEN NotShown
              ELSE [shown |-> TRUE,
                    value |-> _calculate_unrealized_gains(inp.buys_placed, inp.buys_filled,
                                                          inp.sells_placed, inp.sells_filled)]
    /\ tpc' = "unrealized_done"
    /\ UNCHANGED inp
    /\ UNCHANGED <<gridVars, profVars>>

\* display_realized_gains on the two filled ledgers.
DisplayRealized ==
    /\ tpc = "gains"
    /\ out' = [shown |-> TRUE,
               value |-> _calculate_realized_gains(inp.buys_filled, inp.sells_filled)]
    /\ tpc' = "realized_done"
    /\ UNCHANGED inp
    /\ UNCHANGED <<gridVars, profVars>>

NextGains ==
    \/ DisplayUnrealized
    \/ DisplayRealized

SpecGains == InitGains /\ [][NextGains]_vars

(***************************************************************************)
(* Properties of the grid engine.                                          *)
(***************************************************************************)
Buys == {i \in 1..Len(gw) : gw[i].side = "buy"}

\* The step places a new order of the given side at the gateway.
Placed(side) ==
    /\ Len(gw') = Len(gw) + 1
    /\ gw'[Len(gw')].side = side

ResponseErrors == {"KeyError", "TypeError"}

\* C3: no transport failure and no malformed or empty answer of a gateway
\* call ends run with an exception.
C3_NoResponseCrashesRun ==
    exc \notin ResponseErrors

\* The answers that leave the reference price unavailable.
Unavailable == {"fail", "no_results", "empty_results", "ask_missing",
                "ask_unparsable"}

RECURSIVE MultiplesFrom(_, _, _)
MultiplesFrom(m, hi, g) ==
    IF m >= hi THEN <<>> ELSE <<m>> \o MultiplesFrom(m + g, hi, g)

MultiplesIn(lo, hi, g) == MultiplesFrom(((lo + g - 1) \div g) * g, hi, g)

\* The buy loop of the running cycle has run to its end.
BuyLoopDone == price_reply = "ok" /\ pc \in {"status", "sells", "sleep"}

SellBodies == {b \in posts : b.side = "sell"}

StatusReturns == pc = "status" /\ pc' \in {"sells", "sleep"}

FilledFiles == {ledger.buy_filled, ledger.sell_filled}

\* C9: each filled ledger holds at most one record per order_id.
C9_OneRecordPerOrderId ==
    \A f \in FilledFiles :
       \A i, j \in 1..Len(f.lines) :
          i # j => f.lines[i].order_id # f.lines[j].order_id

SideFile(side) == IF side = "buy" THEN ledger.buy_filled ELSE ledger.sell_filled

\* C10: once a run of the reconciliation step has ended, every filled order
\* of the listing it was given has a record in the filled ledger of its side.
C10_FilledOrdersRecorded ==
    ppc = "idle" /\ runs >= 1 =>
       \A n \in 1..Len(listing) :
          listing[n].state = "filled" =>
             \E m \in 1..Len(SideFile(listing[n].side).lines) :
                SideFile(listing[n].side).lines[m].order_id = listing[n].id

LedgerNames == DOMAIN ledger

\* One line was added at the end of the file, the lines before it kept.
AppendedOne(old, new) ==
    /\ new.exists
    /\ Len(new.lines) = Len(old.lines) + 1
    /\ SubSeq(new.lines, 1, Len(old.lines)) = old.lines

\* C11: the ledger files are append-only: a step leaves a ledger file as it
\* was or adds one record at its end, the earlier lines staying an unchanged
\* prefix; no step updates, reorders or deletes a record.
C11_LedgerAppendOnly ==
    [][\A f \in LedgerNames :
          ledger'[f] = ledger[f] \/ AppendedOne(ledger[f], ledger'[f])]_vars

\* A filled ledger that received records of two orders, one after the other.
C11_Witness ==
    \E f \in FilledFiles :
       /\ Len(f.lines) >= 2
       /\ f.lines[1].order_id # f.lines[2].order_id

\* C12: an append that met an I/O error is reported to its caller, by an
\* exception or by a return value that tells the failure.
C12_WriteErrorReported ==
    last_write.outcome = "ioerror" =>
       last_write.raised \/ last_write.returned # None

\* The records of a file: its lines that are JSON records, in file order.
Records(file) == SelectSeq(file.lines, LAMBDA l : l.valid)

\* C13: _read_json_file returns the records of an existing file in file
\* order and the empty sequence, without raising, for a missing file; an
\* empty result for an existing file means the file holds no record.
C13_ReadReturnsRecords ==
    tpc = "read_done" =>
       /\ ~out.raised
       /\ inp.file.exists => out.result = Records(inp.file)
       /\ ~inp.file.exists => out.result = <<>>
       /\ inp.file.exists /\ out.result = <<>> => Records(inp.file) = <<>>

(***************************************************************************)
(* Properties of the gains.                                                *)
(***************************************************************************)
Min(a, b) == IF a <= b THEN a ELSE b

\* A sell of qty at sell_price taken from the buy lots, oldest first.
RECURSIVE Consume(_, _, _, _)
Consume(lots, qty, sell_price, gain) ==
    IF qty = 0 \/ lots = <<>> THEN [lots |-> lots, gain |-> gain]
    ELSE LET lot == Head(lots)
             take == Min(lot.quantity, qty)
             rest == IF take = lot.quantity THEN Tail(lots)
                     ELSE <<[lot EXCEPT !.quantity = @ - take]>> \o Tail(lots)
         IN Consume(rest, qty - take, sell_price, gain + (sell_price - lot.price) * take)

RECURSIVE Fifo(_, _, _)
Fifo(lots, sell_records, gain) ==
    IF sell_records = <<>> THEN [lots |-> lots, gain |-> gain]
    ELSE LET c == Consume(lots, Head(sell_records).quantity, Head(sell_records).price, gain)
         IN Fifo(c.lots, Tail(sell_records), c.gain)

RECURSIVE MarkToMarket(_, _)
MarkToMarket(lots, price) ==
    IF lots = <<>> THEN 0
    ELSE Head(lots).quantity * (price - Head(lots).price) + MarkToMarket(Tail(lots), price)

\* Gain on the matched quantity plus the open buy quantity marked to market.
FifoGains(buys, sell_records, price) ==
    LET m == Fifo(buys, sell_records, 0) IN m.gain + MarkToMarket(m.lots, price)

\* C14: the unrealized gains shown are those of matching the filled sells
\* against the filled buys oldest buy first, the unmatched buy quantity
\* marked to market at the current price.
C14_UnrealizedIsFifo ==
    tpc = "unrealized_done" /\ out.shown =>
       out.value = FifoGains(inp.buys_filled, inp.sells_filled, inp.current_price)

C15_WitnessEmpty ==
    /\ tpc = "realized_done"
    /\ inp.buys_filled = <<>>
    /\ inp.sells_filled = <<>>
    /\ out.value = 0

(***************************************************************************)
(* Properties of the paginated listing.                                    *)
(***************************************************************************)
\* The pages the loop was answered with results for.
Visited(book, failAt) ==
    {n \in 1..MaxPages : Page(book, n) # <<>> /\ (failAt = 0 \/ n < failAt)}

\* C16: the listing returned is the results of the pages visited, page after
\* page and in the order of each page, nothing dropped, repeated or moved;
\* when no request fails these are all the pages, up to the one without a
\* continuation.
C16_ListingIsConcatenation ==
    tpc = "listing_done" =>
       /\ out = SubSeq(inp.book, 1,
                       Min(Len(inp.book), Cardinality(Visited(inp.book, inp.failAt)) * PageSize))
       /\ inp.failAt = 0 => out = inp.book

\* A listing of more than one page, of different orders, was fetched whole.
C16_Witness ==
    /\ tpc = "listing_done"
    /\ Len(out) > PageSize
    /\ out[1] # out[Len(out)]
    /\ out = inp.book

(***************************************************************************)
(* Properties of the values sent.                                          *)
(***************************************************************************)
\* C17: the asset quantity a tool sends is the computed quantity truncated
\* toward zero to 8 decimal places, never rounded to nearest, and so never
\* above the computed quantity.
C17_SentQuantityTruncated ==
    tpc = "daily_done" /\ out.raised = "none" =>
       /\ out.asset_quantity = round_asset_quantity(Quantity(out.buy_amount, inp.ask))
       /\ out.asset_quantity <= Quantity(out.buy_amount, inp.ask)

(***************************************************************************)
(* Properties of the bulk cancel.                                          *)
(***************************************************************************)
\* The ids of the entries that have one, in the order of the entries.
RECURSIVE IdsOf(_)
IdsOf(entries) ==
    IF entries = <<>> THEN <<>>
    ELSE (IF Head(entries).id = None THEN <<>> ELSE <<Head(entries).id>>) \o IdsOf(Tail(entries))

\* C19: the cancel requests sent are one for each entry of the open-orders
\* listing that has an id, in listing order, whatever the answers to the
\* earlier requests were; the loop ends after the last entry, every such
\* entry having had its request.
C19_OneCancelPerListedOrder ==
    /\ tpc = "cancel_loop" =>
          /\ out.i <= Len(out.open_orders)
          /\ out.requests = IdsOf(SubSeq(out.open_orders, 1, out.i - 1))
    /\ tpc = "cancel_done" =>
          /\ out.requests = IdsOf(out.open_orders)
          /\ Len(out.responses) = Len(out.requests)

\* The first cancel failed and the second order had its request all the same.
C19_Witness ==
    /\ tpc = "cancel_done"
    /\ Len(out.requests) >= 2
    /\ "success" \notin out.responses[1]
    /\ out.requests[1] # out.requests[2]

(***************************************************************************)
(* Properties of the sell ladder.                                          *)
(***************************************************************************)
\* The placements asked for: the i-th at initial_price + i * increment, its
\* quantity sell_amount / price truncated to 8 places.
SellLadder ==
    [n \in 1..inp.total_orders |->
       LET price == inp.initial_price + (n - 1) * inp.increment
       IN [price |-> price,
           quantity |-> TruncDiv(Quantity(inp.sell_amount, price), 10) * 10]]

\* C20: place_sell_orders attempts exactly total_orders sell placements, the
\* i-th at initial_price + i * increment with quantity sell_amount / price
\* truncated to 8 places, whether the earlier ones were accepted or not, and
\* then ends normally.
C20_AllSellsAttempted ==
    /\ tpc # "sell_crashed"
    /\ tpc = "sell_done" => out.attempts = SellLadder

====
